---------------------------- MODULE Spec2Model ----------------------------
(***************************************************************************)
(* iio2mqtt: the sensor reader (class IIOSensorReader) and the daemon      *)
(* (class iio2mqtt) of src/iio2mqtt/iio2mqtt.py.                           *)
(*                                                                         *)
(* Two specifications share the definitions below:                         *)
(*   Spec        one execution of iio2mqtt.run, with the signal handler    *)
(*               running between any two steps of it;                      *)
(*   SpecReader  one constructed IIOSensorReader on which enable_channels  *)
(*               and read_channels are called in any order.                *)
(*                                                                         *)
(* The iio library is the environment: which devices and channels the      *)
(* context holds is fixed data (ContextDevices), what a buffer refill, a   *)
(* channel read or an attribute read does in one cycle is an input drawn   *)
(* by the action that performs the cycle.  An optional value (None or a    *)
(* value) is a sequence of length 0 or 1.  Only the log records of level   *)
(* warning and error are kept.                                             *)
(***************************************************************************)
EXTENDS Integers, Sequences, FiniteSets, TLC

VARIABLES
    pc,            \* position of run (Spec); "reader" in SpecReader
    config,        \* self.config: [devices, channels, interval_seconds]
    handlers,      \* signal.signal has installed signal_handler
    running,       \* self.running
    context,       \* self.context: <<>> is None, <<"ctx">> a context
    readers,       \* self.readers: the keys of the dict, in insertion order
    enabled,       \* channel.enabled of every channel of the context
    data,          \* the batch of the current loop iteration (local of run),
                   \* << >> between two iterations
    logged,        \* the warning/error records written by the latest step
    output,        \* the records of the output file
    status,        \* <<>> until run returns, then <<return value>>
    escaping,      \* an exception is propagating out of the main loop
    stopRequested, \* history: signal_handler has run
    entered,       \* history: the main loop has been entered
    acquired,      \* history: initialize_context has acquired a context
    cleanups,      \* history: number of calls of cleanup
    latePublishes, \* history: calls of log_data made while the run flag was
                   \* cleared inside the main loop
    call           \* history: the latest reader or sensor call and its inputs

vars == << pc, config, handlers, running, context, readers, enabled, data,
           logged, output, status, escaping, stopRequested, entered,
           acquired, cleanups, latePublishes, call >>

----------------------------------------------------------------------------
(* Bounds of the inputs.                                                   *)

\* longest "devices" list of a configuration
MaxDevices == 2

\* longest "channels" list of a configuration or of an enable_channels call
MaxSel == 2

\* raw samples a channel read may return
RawSamples == {0, 100}

----------------------------------------------------------------------------
(* Small helpers for Python values.                                        *)

None == << >>

Some(x) == << x >>

Range(s) == { s[i] : i \in 1..Len(s) }

SeqsUpTo(S, n) == UNION { [1..k -> S] : k \in 0..n }

\* x in list  (a left-to-right scan of a Python list)
RECURSIVE ListContains(_, _)
ListContains(list, x) ==
    IF list = << >> THEN FALSE
    ELSE IF Head(list) = x THEN TRUE
    ELSE ListContains(Tail(list), x)

----------------------------------------------------------------------------
(* The IIO context: its devices, their channels in enumeration order, the  *)
(* scan_element flag and the scale/offset attributes of each channel.      *)

Chan(id, scan, scale, offset) ==
    [id |-> id, scan_element |-> scan, attrs |-> [scale |-> scale, offset |-> offset]]

ContextDevices ==
    [d \in {"iio:device0", "iio:device1", "iio:device2"} |->
        CASE d = "iio:device0" ->
               [name |-> Some("adc"),
                channels |-> << Chan("voltage0", TRUE, Some(2), Some(1)),
                                Chan("timestamp", FALSE, None, None),
                                Chan("voltage1", TRUE, None, None) >>]
          [] d = "iio:device1" ->
               [name |-> None,
                channels |-> << Chan("voltage0", TRUE, Some(3), None) >>]
          [] d = "iio:device2" ->
               [name |-> Some("trigger"),
                channels |-> << Chan("count", FALSE, None, None) >>]]

DeviceIds == DOMAIN ContextDevices

\* identifiers a configuration may name: the devices and one that is absent
ConfigDeviceIds == DeviceIds \cup {"iio:device9"}

\* channel identifiers a configuration may name
ConfigChannelIds == {"all", "voltage0", "voltage1"}

ChannelsOf(d) == ContextDevices[d].channels

ChannelKeys ==
    UNION { { << d, ChannelsOf(d)[i].id >> : i \in 1..Len(ChannelsOf(d)) } :
            d \in DeviceIds }

\* the channel of device d with identifier id
ChannelById(d, id) ==
    CHOOSE ch \in Range(ChannelsOf(d)) : ch.id = id

----------------------------------------------------------------------------
(* Log records.                                                            *)

LogRecord(level, text, subject) ==
    [level |-> level, text |-> text, subject |-> subject]

IsError(r) == r.level = "error"

Errors(log) == SelectSeq(log, IsError)

----------------------------------------------------------------------------
(* class IIOSensorReader                                                   *)

\* context.find_device(device_id): the device, or None
find_device(device_id) ==
    IF device_id \in DeviceIds THEN Some(device_id) ELSE None

\* IIOSensorReader.__init__ / _initialize_device: the reader's device, or
\* None when the constructor raises; the error record _initialize_device
\* writes before it re-raises
InitializeDevice(device_id) ==
    LET device == find_device(device_id)
    IN  IF device = None
        THEN [device |-> None,
              logged |-> << LogRecord("error", "Failed to initialize device", device_id) >>]
        ELSE [device |-> device, logged |-> << >>]

\* get_available_channels: the identifiers of the scan-capable channels,
\* in enumeration order
RECURSIVE AvailableFrom(_)
AvailableFrom(channels) ==
    IF channels = << >> THEN << >>
    ELSE IF Head(channels).scan_element
         THEN << Head(channels).id >> \o AvailableFrom(Tail(channels))
         ELSE AvailableFrom(Tail(channels))

get_available_channels(device) == AvailableFrom(ChannelsOf(device))

\* the test of line 62: channel_ids is None or channel.id in channel_ids
ChannelSelected(channel_ids, id) ==
    \/ channel_ids = None
    \/ ListContains(channel_ids[1], id)

\* the flag the loop body of enable_channels leaves on one channel
EnableFlagKeep(channel, channel_ids, old) ==
    IF channel.scan_element /\ ChannelSelected(channel_ids, channel.id)
    THEN TRUE
    ELSE old

EnableFlag(channel, channel_ids, old) ==
    IF channel.scan_element
    THEN IF ChannelSelected(channel_ids, channel.id) THEN TRUE ELSE FALSE
    ELSE old

\* enable_channels(channel_ids) on the reader of device: the enabled flags after
enable_channels(device, channel_ids, en) ==
    [k \in ChannelKeys |->
        IF k[1] = device
        THEN EnableFlag(ChannelById(device, k[2]), channel_ids, en[k])
        ELSE en[k]]

\* self.device.name or self.device.id
DeviceLabel(device) ==
    IF ContextDevices[device].name # None /\ ContextDevices[device].name[1] # ""
    THEN ContextDevices[device].name[1]
    ELSE device

\* what the hardware does for one channel in one cycle
ChannelOutcomes(channel) ==
    { [kind |-> "ok", raw |-> r] : r \in RawSamples }
    \cup { [kind |-> "read_error", raw |-> 0] }
    \cup (IF channel.attrs.scale # None
          THEN { [kind |-> "scale_error", raw |-> 0] } ELSE { })
    \cup (IF channel.attrs.offset # None
          THEN { [kind |-> "offset_error", raw |-> 0] } ELSE { })

AllChannelOutcomes ==
    UNION { ChannelOutcomes(ChannelById(k[1], k[2])) : k \in ChannelKeys }

\* what the hardware does for one device in one cycle: the buffer is
\* created and refilled or that raises, and the outcome of every channel
ReadOutcomes ==
    [device \in DeviceIds |->
        LET ids == { ChannelsOf(device)[i].id : i \in 1..Len(ChannelsOf(device)) }
        IN  { [buffer |-> "error",
               ch |-> [id \in ids |-> [kind |-> "read_error", raw |-> 0]]] }
            \cup
            { [buffer |-> "ok", ch |-> f] :
                f \in { g \in [ids -> AllChannelOutcomes] :
                          \A id \in ids :
                             g[id] \in ChannelOutcomes(ChannelById(device, id)) } }]

\* the test of line 83
ParticipatesAny(channel, flag) == channel.scan_element

Participates(channel, flag) == flag /\ channel.scan_element

\* a reading whose value applies the scale before the offset
ReadingScaleFirst(device, channel, raw, scale, offset) ==
    [device |-> DeviceLabel(device),
     channel |-> channel.id,
     raw |-> raw,
     scale |-> scale,
     offset |-> offset,
     value |-> raw * scale + offset]

\* lines 99-109: the reading of one channel
Reading(device, channel, raw, scale, offset) ==
    [device |-> DeviceLabel(device),
     channel |-> channel.id,
     raw |-> raw,
     scale |-> scale,
     offset |-> offset,
     value |-> (raw + offset) * scale]

\* lines 84-113: the body of the loop for one participating channel
ReadOneChannelSilent(device, channel, oc) ==
    IF oc.kind = "ok"
    THEN [readings |-> << Reading(device, channel, oc.raw,
                            IF channel.attrs.scale # None THEN channel.attrs.scale[1] ELSE 1,
                            IF channel.attrs.offset # None THEN channel.attrs.offset[1] ELSE 0) >>,
          logged |-> << >>]
    ELSE [readings |-> << >>, logged |-> << >>]

ReadOneChannel(device, channel, oc) ==
    IF oc.kind = "ok"
    THEN [readings |-> << Reading(device, channel, oc.raw,
                            IF channel.attrs.scale # None THEN channel.attrs.scale[1] ELSE 1,
                            IF channel.attrs.offset # None THEN channel.attrs.offset[1] ELSE 0) >>,
          logged |-> << >>]
    ELSE \* channel.read, or the read or float() of an attribute, raised:
         \* the except clause of line 112
         [readings |-> << >>,
          logged |-> << LogRecord("error", "Error reading channel", channel.id) >>]

\* lines 82-113: the loop over the channels, from the i-th on
RECURSIVE ReadLoop(_, _, _, _)
ReadLoop(device, en, o, i) ==
    IF i > Len(ChannelsOf(device)) THEN [readings |-> << >>, logged |-> << >>]
    ELSE LET channel == ChannelsOf(device)[i]
             rest == ReadLoop(device, en, o, i + 1)
         IN  IF Participates(channel, en[<< device, channel.id >>])
             THEN LET one == ReadOneChannel(device, channel, o.ch[channel.id])
                  IN  [readings |-> one.readings \o rest.readings,
                       logged |-> one.logged \o rest.logged]
             ELSE rest

\* read_channels without the try of line 74: a buffer failure propagates
read_channels_uncaught(device, en, o) ==
    IF o.buffer = "error"
    THEN [readings |-> << >>, logged |-> << >>, raised |-> TRUE]
    ELSE LET r == ReadLoop(device, en, o, 1)
         IN  [readings |-> r.readings, logged |-> r.logged, raised |-> FALSE]

\* read_channels on the reader of device: the readings it returns, the
\* records it logs, and whether an exception leaves it (the body is inside
\* the try of line 74, whose except clause of line 115 handles every
\* Exception, and the loop body inside the try of line 84)
read_channels(device, en, o) ==
    IF o.buffer = "error"
    THEN [readings |-> << >>,
          logged |-> << LogRecord("error", "Error reading device", device) >>,
          raised |-> FALSE]
    ELSE LET r == ReadLoop(device, en, o, 1)
         IN  [readings |-> r.readings, logged |-> r.logged, raised |-> FALSE]

----------------------------------------------------------------------------
(* class iio2mqtt                                                          *)

\* the configurations load_config may produce (a missing key is the list
\* or the interval its default stands for)
Intervals == {5, -1}

Configs ==
    { [devices |-> ds, channels |-> cs, interval_seconds |-> iv] :
        ds \in SeqsUpTo(ConfigDeviceIds, MaxDevices),
        cs \in SeqsUpTo(ConfigChannelIds, MaxSel),
        iv \in Intervals }

\* self.readers[device_id] = reader: the keys of the dict afterwards
DictSet(keys, k) == IF ListContains(keys, k) THEN keys ELSE Append(keys, k)

\* lines 205-229: the body of the loop of initialize_readers for one device
\* identifier; st is [readers, enabled, logged]
\* an initialisation that treats an empty filtered selection as "all"
InitOneReaderEmptyMeansAll(device_id, configured_channels, st) ==
    LET init == InitializeDevice(device_id)
    IN  IF init.device = None
        THEN [st EXCEPT !.logged = st.logged \o init.logged \o
                  << LogRecord("error", "Failed to initialize reader", device_id) >>]
        ELSE LET device == init.device[1]
                 available_channels == get_available_channels(device)
                 IsAvailable(ch) == ListContains(available_channels, ch)
                 selected == SelectSeq(configured_channels, IsAvailable)
                 channels_to_enable ==
                     IF ListContains(configured_channels, "all") \/ selected = << >>
                     THEN None
                     ELSE Some(selected)
             IN  IF available_channels = << >>
                 THEN [st EXCEPT !.logged = st.logged \o
                          << LogRecord("warning", "No channels found", device_id) >>]
                 ELSE [readers |-> DictSet(st.readers, device_id),
                       enabled |-> enable_channels(device, channels_to_enable, st.enabled),
                       logged |-> st.logged]

InitOneReaderKeepEmpty(device_id, configured_channels, st) ==
    LET init == InitializeDevice(device_id)
    IN  IF init.device = None
        THEN [st EXCEPT !.logged = st.logged \o init.logged \o
                  << LogRecord("error", "Failed to initialize reader", device_id) >>]
        ELSE LET device == init.device[1]
                 available_channels == get_available_channels(device)
                 IsAvailable(ch) == ListContains(available_channels, ch)
                 channels_to_enable ==
                     IF ListContains(configured_channels, "all")
                     THEN None
                     ELSE Some(SelectSeq(configured_channels, IsAvailable))
             IN  [readers |-> DictSet(st.readers, device_id),
                  enabled |-> enable_channels(device, channels_to_enable, st.enabled),
                  logged |-> st.logged]

InitOneReader(device_id, configured_channels, st) ==
    LET init == InitializeDevice(device_id)
    IN  IF init.device = None
        THEN \* the constructor raised: the except clause of line 228
             [st EXCEPT !.logged = st.logged \o init.logged \o
                  << LogRecord("error", "Failed to initialize reader", device_id) >>]
        ELSE LET device == init.device[1]
                 available_channels == get_available_channels(device)
                 IsAvailable(ch) == ListContains(available_channels, ch)
                 channels_to_enable ==
                     IF ListContains(configured_channels, "all")
                     THEN None
                     ELSE Some(SelectSeq(configured_channels, IsAvailable))
             IN  IF available_channels = << >>
                 THEN [st EXCEPT !.logged = st.logged \o
                          << LogRecord("warning", "No channels found", device_id) >>]
                 ELSE [readers |-> DictSet(st.readers, device_id),
                       enabled |-> enable_channels(device, channels_to_enable, st.enabled),
                       logged |-> st.logged]

\* initialize_readers: the loop over the configured devices
RECURSIVE InitReadersFrom(_, _, _)
InitReadersFrom(devices, configured_channels, st) ==
    IF devices = << >> THEN st
    ELSE InitReadersFrom(Tail(devices), configured_channels,
                         InitOneReader(Head(devices), configured_channels, st))

initialize_readers(cfg, rd, en) ==
    InitReadersFrom(cfg.devices, cfg.channels,
                    [readers |-> rd, enabled |-> en, logged |-> << >>])

\* what the hardware does in one tick: one outcome for each active reader,
\* from the i-th on
RECURSIVE SensorOutcomesFrom(_, _)
SensorOutcomesFrom(rd, i) ==
    IF i > Len(rd) THEN { << >> }
    ELSE { << o >> \o rest :
             o \in ReadOutcomes[rd[i]], rest \in SensorOutcomesFrom(rd, i + 1) }

SensorOutcomes(rd) == SensorOutcomesFrom(rd, 1)

\* a tick whose batch lists the readers' readings last reader first
RECURSIVE ReadSensorsFromRev(_, _, _, _)
ReadSensorsFromRev(rd, en, o, i) ==
    IF i > Len(rd) THEN [data |-> << >>, logged |-> << >>]
    ELSE LET readings == read_channels(rd[i], en, o[i])
             rest == ReadSensorsFromRev(rd, en, o, i + 1)
         IN  [data |-> rest.data \o readings.readings,
              logged |-> readings.logged \o rest.logged]

\* read_sensors: the batch and the records logged, from the i-th reader on;
\* o[j] is what the hardware does for the j-th of the readers still to read
RECURSIVE ReadSensorsFrom(_, _, _, _)
ReadSensorsFrom(rd, en, o, i) ==
    IF i > Len(rd) THEN [data |-> << >>, logged |-> << >>]
    ELSE LET readings == read_channels(rd[i], en, o[i])
             rest == ReadSensorsFrom(rd, en, o, i + 1)
         IN  [data |-> readings.readings \o rest.data,
              logged |-> readings.logged \o rest.logged]

\* a tick that ends at the first reader whose buffer fails
RECURSIVE ReadSensorsAbortFrom(_, _, _, _)
ReadSensorsAbortFrom(rd, en, o, i) ==
    IF i > Len(rd) THEN [data |-> << >>, logged |-> << >>]
    ELSE LET readings == read_channels(rd[i], en, o[i])
             rest == ReadSensorsAbortFrom(rd, en, o, i + 1)
         IN  IF o[i].buffer = "error"
             THEN [data |-> << >>, logged |-> readings.logged]
             ELSE [data |-> readings.readings \o rest.data,
                   logged |-> readings.logged \o rest.logged]

read_sensors_abort(rd, en, o) == ReadSensorsAbortFrom(rd, en, o, 1)

read_sensors(rd, en, o) == ReadSensorsFrom(rd, en, o, 1)

\* the module imports sys, time, signal, logging, argparse, datetime,
\* typing, iio, tomli and tomli_w: the name json that log_data uses is
\* not defined
JsonImported == FALSE

\* json.dumps(reading) + '\n'
JsonLine(reading) == [json |-> reading]

RECURSIVE JsonLines(_)
JsonLines(batch) ==
    IF batch = << >> THEN << >>
    ELSE << JsonLine(Head(batch)) >> \o JsonLines(Tail(batch))

\* log_data(data): the output file and the records logged afterwards;
\* open_ok tells whether open(output_file, 'a') succeeds
log_data(batch, out, open_ok) ==
    IF open_ok /\ (batch = << >> \/ JsonImported)
    THEN [output |-> out \o JsonLines(batch), logged |-> << >>]
    ELSE \* open raised, or json.dumps raised NameError for the first reading:
         \* the except clause of line 249, whose record names the exception
         [output |-> out,
          logged |-> << LogRecord("error", "Failed to write data",
                                  IF open_ok THEN "NameError" ELSE "OSError") >>]

----------------------------------------------------------------------------
(* run, step by step.                                                      *)

runVars == << config, handlers, running, context, readers, enabled, data,
              output, status, escaping, entered, acquired, cleanups >>

Init ==
    /\ pc = "load_config"
    /\ config = [devices |-> << >>, channels |-> << >>, interval_seconds |-> 5]
    /\ handlers = FALSE
    /\ running = FALSE
    /\ context = None
    /\ readers = << >>
    /\ enabled = [k \in ChannelKeys |-> FALSE]
    /\ data = << >>
    /\ logged = << >>
    /\ output = << >>
    /\ status = << >>
    /\ escaping = FALSE
    /\ stopRequested = FALSE
    /\ entered = FALSE
    /\ acquired = FALSE
    /\ cleanups = 0
    /\ latePublishes = 0
    /\ call = [op |-> "none", device |-> "", channel_ids |-> None,
               before |-> [k \in ChannelKeys |-> FALSE], outcome |-> None,
               raised |-> FALSE]

\* lines 267-269
LoadConfig ==
    /\ pc = "load_config"
    /\ \/ /\ logged' = << LogRecord("error", "Failed to load configuration", "config_path") >>
          /\ status' = << 1 >>
          /\ pc' = "returned"
          /\ UNCHANGED config
       \/ /\ \E c \in Configs : config' = c
          /\ logged' = << >>
          /\ pc' = "setup"
          /\ UNCHANGED status
    /\ UNCHANGED << handlers, running, context, readers, enabled, data, output,
                    escaping, stopRequested, entered, acquired, cleanups, latePublishes, call >>

\* lines 272-276
SetupSignals ==
    /\ pc = "setup"
    /\ handlers' = TRUE
    /\ logged' = << >>
    /\ pc' = "initialize_context"
    /\ UNCHANGED << config, running, context, readers, enabled, data, output,
                    status, escaping, stopRequested, entered, acquired, cleanups, latePublishes, call >>

\* lines 279-281 with initialize_context
InitializeContext ==
    /\ pc = "initialize_context"
    /\ \/ /\ context' = Some("ctx")
          /\ acquired' = TRUE
          /\ logged' = << >>
          /\ pc' = "initialize_readers"
          /\ UNCHANGED status
       \/ /\ logged' = << LogRecord("error", "Failed to initialize IIO context", "context"),
                          LogRecord("error", "Failed to initialize IIO context, exiting", "run") >>
          /\ status' = << 1 >>
          /\ pc' = "returned"
          /\ UNCHANGED << context, acquired >>
    /\ UNCHANGED << config, handlers, running, readers, enabled, data, output,
                    escaping, stopRequested, entered, cleanups, latePublishes, call >>

\* line 284
InitializeReaders ==
    /\ pc = "initialize_readers"
    /\ LET st == initialize_readers(config, readers, enabled)
       IN  /\ readers' = st.readers
           /\ enabled' = st.enabled
           /\ logged' = st.logged
    /\ pc' = "check_readers"
    /\ UNCHANGED << config, handlers, running, context, data, output, status,
                    escaping, stopRequested, entered, acquired, cleanups, latePublishes, call >>

\* cleanup
cleanup ==
    /\ readers' = << >>
    /\ context' = None
    /\ cleanups' = cleanups + 1

\* lines 286-289
NoReadersSkipCleanup ==
    /\ pc = "check_readers"
    /\ readers = << >>
    /\ logged' = << LogRecord("error", "No sensor readers initialized, exiting", "run") >>
    /\ status' = << 1 >>
    /\ pc' = "returned"
    /\ UNCHANGED << config, handlers, running, enabled, data, output, escaping,
                    stopRequested, entered, acquired, latePublishes, call, readers, context,
                    cleanups >>

NoReaders ==
    /\ pc = "check_readers"
    /\ readers = << >>
    /\ logged' = << LogRecord("error", "No sensor readers initialized, exiting", "run") >>
    /\ cleanup
    /\ status' = << 1 >>
    /\ pc' = "returned"
    /\ UNCHANGED << config, handlers, running, enabled, data, output, escaping,
                    stopRequested, entered, acquired, latePublishes, call >>

StartLoopUnguarded ==
    /\ pc = "check_readers"
    /\ running' = TRUE
    /\ entered' = TRUE
    /\ logged' = << >>
    /\ pc' = "while"
    /\ UNCHANGED << config, handlers, context, readers, enabled, data, output,
                    status, escaping, stopRequested, acquired, cleanups, latePublishes, call >>

\* lines 286 and 291-295
StartLoop ==
    /\ pc = "check_readers"
    /\ readers # << >>
    /\ running' = TRUE
    /\ entered' = TRUE
    /\ logged' = << >>
    /\ pc' = "while"
    /\ UNCHANGED << config, handlers, context, readers, enabled, data, output,
                    status, escaping, stopRequested, acquired, cleanups, latePublishes, call >>

WhileCheckAlways ==
    /\ pc = "while"
    /\ pc' = "read_sensors"
    /\ logged' = << >>
    /\ UNCHANGED << runVars, stopRequested, latePublishes, call >>

\* line 299
WhileCheck ==
    /\ pc = "while"
    /\ pc' = IF running THEN "read_sensors" ELSE "finally"
    /\ logged' = << >>
    /\ UNCHANGED << runVars, stopRequested, latePublishes, call >>

\* a tick that removes from the readers those whose buffer failed
ReadSensorsDropFailed ==
    /\ pc = "read_sensors"
    /\ \E o \in SensorOutcomes(readers) :
          LET r == read_sensors(readers, enabled, o)
              BufferOk(d) == \A i \in 1..Len(readers) :
                                readers[i] = d => o[i].buffer = "ok"
          IN  /\ data' = r.data
              /\ logged' = r.logged
              /\ readers' = SelectSeq(readers, BufferOk)
              /\ pc' = IF r.data # << >> THEN "log_data" ELSE "sleep"
    /\ UNCHANGED << config, handlers, running, context, enabled, output,
                    status, escaping, stopRequested, entered, acquired, cleanups, latePublishes, call >>

\* a tick that hands its batch to log_data even when it is empty
ReadSensorsAlwaysLog ==
    /\ pc = "read_sensors"
    /\ \E o \in SensorOutcomes(readers) :
          LET r == read_sensors(readers, enabled, o)
          IN  /\ data' = r.data
              /\ logged' = r.logged
              /\ pc' = "log_data"
    /\ UNCHANGED << config, handlers, running, context, readers, enabled, output,
                    status, escaping, stopRequested, entered, acquired, cleanups, latePublishes, call >>

\* line 302 and the test of line 305
ReadSensors ==
    /\ pc = "read_sensors"
    /\ \E o \in SensorOutcomes(readers) :
          LET r == read_sensors(readers, enabled, o)
          IN  /\ data' = r.data
              /\ logged' = r.logged
              /\ pc' = IF r.data # << >> THEN "log_data" ELSE "sleep"
    /\ UNCHANGED << config, handlers, running, context, readers, enabled, output,
                    status, escaping, stopRequested, entered, acquired, cleanups, latePublishes, call >>

\* a publish whose failure is not caught in log_data and reaches the except
\* clause of run
LogDataUncaught ==
    /\ pc = "log_data"
    /\ \E open_ok \in BOOLEAN :
          LET r == log_data(data, output, open_ok)
          IN  /\ output' = r.output
              /\ logged' = r.logged
              /\ pc' = IF r.logged = << >> THEN "sleep" ELSE "except"
    /\ latePublishes' = IF running THEN latePublishes ELSE latePublishes + 1
    /\ UNCHANGED << config, handlers, running, context, readers, enabled, data,
                    status, escaping, stopRequested, entered, acquired, cleanups, call >>

\* lines 306-307
LogData ==
    /\ pc = "log_data"
    /\ \E open_ok \in BOOLEAN :
          LET r == log_data(data, output, open_ok)
          IN  /\ output' = r.output
              /\ logged' = r.logged
    /\ pc' = "sleep"
    /\ latePublishes' = IF running THEN latePublishes ELSE latePublishes + 1
    /\ UNCHANGED << config, handlers, running, context, readers, enabled, data,
                    status, escaping, stopRequested, entered, acquired, cleanups, call >>

\* line 310: time.sleep(interval) raises ValueError for a negative interval
Sleep ==
    /\ pc = "sleep"
    /\ pc' = IF config.interval_seconds >= 0 THEN "while" ELSE "except"
    /\ data' = IF config.interval_seconds >= 0 THEN << >> ELSE data
    /\ logged' = << >>
    /\ UNCHANGED << config, handlers, running, context, readers, enabled, output,
                    status, escaping, stopRequested, entered, acquired, cleanups, latePublishes, call >>

\* an except clause that backs off without logging the error
ExceptBackoffSilent ==
    /\ pc = "except"
    /\ logged' = << >>
    /\ data' = << >>
    /\ pc' = "while"
    /\ UNCHANGED << config, handlers, running, context, readers, enabled, output,
                    status, escaping, stopRequested, entered, acquired, cleanups, latePublishes, call >>

\* an except clause that ends the loop
ExceptBackoffExit ==
    /\ pc = "except"
    /\ logged' = << LogRecord("error", "Error in main loop", "run") >>
    /\ data' = << >>
    /\ pc' = "finally"
    /\ UNCHANGED << config, handlers, running, context, readers, enabled, output,
                    status, escaping, stopRequested, entered, acquired, cleanups, latePublishes, call >>

\* lines 312-314
ExceptBackoff ==
    /\ pc = "except"
    /\ logged' = << LogRecord("error", "Error in main loop", "run") >>
    /\ data' = << >>
    /\ pc' = "while"
    /\ UNCHANGED << config, handlers, running, context, readers, enabled, output,
                    status, escaping, stopRequested, entered, acquired, cleanups, latePublishes, call >>

\* an exception that the except clause of line 312 does not handle (it is
\* no Exception, or it is raised inside that clause) leaves the while loop
Escape ==
    /\ pc \in {"read_sensors", "log_data", "sleep", "except"}
    /\ escaping' = TRUE
    /\ pc' = "finally"
    /\ logged' = << >>
    /\ UNCHANGED << config, handlers, running, context, readers, enabled, data,
                    output, status, stopRequested, entered, acquired, cleanups, latePublishes, call >>

\* lines 316-320
Finally ==
    /\ pc = "finally"
    /\ cleanup
    /\ logged' = << >>
    /\ IF escaping
       THEN pc' = "raised" /\ UNCHANGED status
       ELSE pc' = "returned" /\ status' = << 0 >>
    /\ UNCHANGED << config, handlers, running, enabled, data, output, escaping,
                    stopRequested, entered, acquired, latePublishes, call >>

\* signal_handler, between any two steps of run once it is installed
SignalHandler ==
    /\ handlers
    /\ pc \notin {"returned", "raised"}
    /\ running' = FALSE
    /\ stopRequested' = TRUE
    /\ UNCHANGED << pc, config, handlers, context, readers, enabled, data, logged,
                    output, status, escaping, entered, acquired, cleanups, latePublishes, call >>

Next ==
    \/ LoadConfig
    \/ SetupSignals
    \/ InitializeContext
    \/ InitializeReaders
    \/ NoReaders
    \/ StartLoop
    \/ WhileCheck
    \/ ReadSensors
    \/ LogData
    \/ Sleep
    \/ ExceptBackoff
    \/ Escape
    \/ Finally
    \/ SignalHandler

Spec == Init /\ [][Next]_vars

----------------------------------------------------------------------------
(* One IIOSensorReader, called directly.                                   *)

\* channel identifiers an enable_channels call may name
SelectableIds == {"voltage0", "voltage1", "timestamp"}

\* the channel_ids arguments of enable_channels: None or a list
ChannelSelections ==
    { None } \cup { Some(l) : l \in SeqsUpTo(SelectableIds, MaxSel) }

\* IIOSensorReader(context, device_id) has returned, on a fresh context
InitReader ==
    /\ pc = "reader"
    /\ config = [devices |-> << >>, channels |-> << >>, interval_seconds |-> 5]
    /\ handlers = FALSE
    /\ running = FALSE
    /\ context = Some("ctx")
    /\ \E d \in DeviceIds : readers = << d >>
    /\ enabled = [k \in ChannelKeys |-> FALSE]
    /\ data = << >>
    /\ logged = << >>
    /\ output = << >>
    /\ status = << >>
    /\ escaping = FALSE
    /\ stopRequested = FALSE
    /\ entered = FALSE
    /\ acquired = TRUE
    /\ cleanups = 0
    /\ latePublishes = 0
    /\ call = [op |-> "none", device |-> "", channel_ids |-> None,
               before |-> [k \in ChannelKeys |-> FALSE], outcome |-> None,
               raised |-> FALSE]

\* reader.enable_channels(channel_ids)
EnableChannels ==
    /\ pc = "reader"
    /\ \E channel_ids \in ChannelSelections :
          /\ enabled' = enable_channels(readers[1], channel_ids, enabled)
          /\ call' = [op |-> "enable_channels", device |-> readers[1],
                      channel_ids |-> channel_ids, before |-> enabled,
                      outcome |-> None, raised |-> FALSE]
    /\ UNCHANGED << pc, config, handlers, running, context, readers, data, logged,
                    output, status, escaping, stopRequested, entered, acquired,
                    cleanups, latePublishes >>

\* reader.read_channels()
ReadChannels ==
    /\ pc = "reader"
    /\ \E o \in ReadOutcomes[readers[1]] :
          LET r == read_channels(readers[1], enabled, o)
          IN  /\ data' = r.readings
              /\ logged' = r.logged
              /\ call' = [op |-> "read_channels", device |-> readers[1],
                          channel_ids |-> None, before |-> enabled,
                          outcome |-> Some(o), raised |-> r.raised]
    /\ UNCHANGED << pc, config, handlers, running, context, readers, enabled,
                    output, status, escaping, stopRequested, entered, acquired,
                    cleanups, latePublishes >>

NextReader ==
    \/ EnableChannels
    \/ ReadChannels

SpecReader == InitReader /\ [][NextReader]_vars

----------------------------------------------------------------------------
(* Vocabulary of the properties.                                           *)

\* the identifiers of the channels of device d that are scan-capable and
\* enabled under the flags en
ParticipatingIds(d, en) ==
    { ChannelsOf(d)[i].id : i \in { j \in 1..Len(ChannelsOf(d)) :
          /\ ChannelsOf(d)[j].scan_element
          /\ en[<< d, ChannelsOf(d)[j].id >>] } }

ScanIds(d) ==
    { ChannelsOf(d)[i].id : i \in { j \in 1..Len(ChannelsOf(d)) :
          ChannelsOf(d)[j].scan_element } }

IsChannelError(r) == r.level = "error" /\ r.text = "Error reading channel"

IsDeviceError(r) == r.level = "error" /\ r.text = "Error reading device"

IsWarning(r) == r.level = "warning"

\* the positions of run inside the main loop
LoopPcs == {"while", "read_sensors", "log_data", "sleep", "except"}

\* read_sensors has just returned: logged holds the records of this tick
AfterReadSensors == pc = "log_data" \/ (pc = "sleep" /\ data = << >>)

\* the readers of the tick whose buffer acquisition failed
FailedReaders == { d \in Range(readers) : \E i \in 1..Len(logged) :
                     IsDeviceError(logged[i]) /\ logged[i].subject = d }

RECURSIVE SumParticipating(_, _)
SumParticipating(ds, en) ==
    IF ds = { } THEN 0
    ELSE LET d == CHOOSE x \in ds : TRUE
         IN  Cardinality(ParticipatingIds(d, en)) + SumParticipating(ds \ {d}, en)

\* the number of positions of list that hold an element of S
CountIn(list, S) == Cardinality({ i \in 1..Len(list) : list[i] \in S })

Reverse(list) == [i \in 1..Len(list) |-> list[Len(list) + 1 - i]]

----------------------------------------------------------------------------
(* Properties.                                                             *)

\* C1 (SpecReader): in a read_channels cycle whose buffer acquisition
\* succeeds, with n enabled scan-capable channels of which k fail (the
\* channel read or the read of one of its attributes raises), the cycle
\* returns n-k readings, one for each channel that did not fail, and logs
\* k error records, one for each channel that failed.
C1_ChannelFailuresIsolated ==
    (call.op = "read_channels" /\ call.outcome[1].buffer = "ok") =>
        LET o == call.outcome[1]
            P == ParticipatingIds(call.device, enabled)
            F == { id \in P : o.ch[id].kind # "ok" }
        IN  /\ Len(data) = Cardinality(P) - Cardinality(F)
            /\ { data[i].channel : i \in 1..Len(data) } = P \ F
            /\ Len(logged) = Cardinality(F)
            /\ Len(Errors(logged)) = Cardinality(F)
            /\ { logged[i].subject : i \in 1..Len(logged) } = F

\* C1 witness: two enabled channels, the first fails, the second is read
C1_Witness ==
    /\ call.op = "read_channels"
    /\ call.outcome[1].buffer = "ok"
    /\ ParticipatingIds(call.device, enabled) = {"voltage0", "voltage1"}
    /\ call.outcome[1].ch["voltage0"].kind = "read_error"
    /\ Len(data) = 1
    /\ data[1].channel = "voltage1"
    /\ Len(Errors(logged)) = 1

\* C2 (Spec): inside the main loop the active readers are those that
\* initialize_readers set up; after read_sensors, a reader whose buffer
\* failed has no reading in the batch and one error record, and every
\* enabled scan-capable channel of every other reader has its reading in
\* the batch or its own error record.
C2_BufferFailureIsolated ==
    /\ pc \in LoopPcs =>
          readers = initialize_readers(config, << >>, [k \in ChannelKeys |-> FALSE]).readers
    /\ AfterReadSensors =>
          LET Ok == Range(readers) \ FailedReaders
              ChannelErrors == Len(SelectSeq(logged, IsChannelError))
          IN  /\ \A d \in FailedReaders : \A i \in 1..Len(data) :
                    data[i].device # DeviceLabel(d)
              /\ Len(SelectSeq(logged, IsDeviceError)) = Cardinality(FailedReaders)
              /\ Len(logged) = Cardinality(FailedReaders) + ChannelErrors
              /\ Len(data) + ChannelErrors = SumParticipating(Ok, enabled)
              /\ \A d \in Ok : \A c \in ParticipatingIds(d, enabled) :
                    \/ \E i \in 1..Len(data) :
                          data[i].device = DeviceLabel(d) /\ data[i].channel = c
                    \/ \E i \in 1..Len(logged) :
                          IsChannelError(logged[i]) /\ logged[i].subject = c

\* C2 witness: two readers, the first failed on its buffer, the second
\* contributed its reading
C2_Witness ==
    /\ pc = "log_data"
    /\ Len(readers) = 2
    /\ FailedReaders = { readers[1] }
    /\ Len(data) = 1
    /\ data[1].device = DeviceLabel(readers[2])

\* C3 (Spec): a stop request made once the handlers are installed is seen
\* at the next loop-boundary check: whenever run is at the test of the
\* while loop after signal_handler has run, the run flag is false.
C3_StopNeverLost ==
    (stopRequested /\ pc = "while") => ~running

\* C4 (Spec), as claimed: after signal_handler has run, log_data is not
\* called any more.
C4_NoPublishAfterStop ==
    [][stopRequested => ~(pc = "log_data" /\ pc' = "sleep")]_vars

\* C4 (Spec), amended: once the run flag is cleared inside the main loop it
\* stays cleared, no read cycle is started any more, log_data is called only
\* for the cycle that was in flight, and so at most once.
C4_NoNewCycleAfterStop ==
    [][(entered /\ ~running) =>
          /\ ~running'
          /\ pc' = "read_sensors" => pc = "read_sensors"
          /\ pc' = "log_data" => pc \in {"read_sensors", "log_data"}
          /\ latePublishes' <= 1]_vars

\* C4 witness: the batch of the cycle in flight was published after the
\* stop request, and run has returned
C4_Witness ==
    /\ pc = "returned"
    /\ status = << 0 >>
    /\ latePublishes = 1

\* C5 (Spec): cleanup runs at most once and only when run ends; when run
\* has ended after the context was acquired, cleanup has run exactly once,
\* the reader set is empty and the context is released.
C5_CleanupExactlyOnce ==
    /\ cleanups <= 1
    /\ cleanups = 1 => pc \in {"returned", "raised"}
    /\ (pc \in {"returned", "raised"} /\ acquired) =>
          (cleanups = 1 /\ readers = << >> /\ context = None)
    /\ pc \in LoopPcs => (context # None /\ cleanups = 0)

\* C5 witness: run ended by an exception that left the main loop
C5_Witness ==
    /\ pc = "raised"
    /\ acquired
    /\ cleanups = 1
    /\ readers = << >>
    /\ context = None

\* C6 (Spec), as claimed: after initialize_readers the active readers are
\* the configured identifiers whose device can be resolved, and one error
\* is logged for each configured identifier that cannot.
C6_ReaderPerResolvableDevice ==
    pc = "check_readers" =>
        /\ Range(readers) = { d \in Range(config.devices) : find_device(d) # None }
        /\ Len(Errors(logged)) = CountIn(config.devices, ConfigDeviceIds \ DeviceIds)

\* C6 (Spec), amended: after initialize_readers the active readers are,
\* once each and in the order configured, the configured identifiers whose
\* device can be resolved and has a scan-capable channel; each configured
\* identifier that cannot be resolved is logged as two errors (one by
\* _initialize_device, one by initialize_readers), each resolvable device
\* without scan-capable channel as one warning, and nothing else is logged.
C6_ReaderPerUsableDevice ==
    pc = "check_readers" =>
        LET Usable == { d \in DeviceIds : ScanIds(d) # { } }
            Missing == ConfigDeviceIds \ DeviceIds
        IN  /\ Range(readers) = Range(config.devices) \cap Usable
            /\ \A i, j \in 1..Len(readers) : readers[i] = readers[j] => i = j
            /\ \A i, j \in 1..Len(readers) : i < j =>
                  \E m, n \in 1..Len(config.devices) :
                     /\ m < n
                     /\ config.devices[m] = readers[i]
                     /\ config.devices[n] = readers[j]
            /\ Len(Errors(logged)) = 2 * CountIn(config.devices, Missing)
            /\ \A d \in Missing :
                  Cardinality({ i \in 1..Len(logged) :
                      IsError(logged[i]) /\ logged[i].subject = d })
                  = 2 * CountIn(config.devices, {d})
            /\ Len(SelectSeq(logged, IsWarning)) =
                  CountIn(config.devices, DeviceIds \ Usable)
            /\ Len(logged) = 2 * CountIn(config.devices, Missing)
                             + CountIn(config.devices, DeviceIds \ Usable)

\* C6 witness: one configured device is missing, the other gets its reader
C6_Witness ==
    /\ pc = "check_readers"
    /\ config.devices = << "iio:device9", "iio:device1" >>
    /\ readers = << "iio:device1" >>
    /\ Len(Errors(logged)) = 2

\* C7 (Spec): when the reader set is empty after initialize_readers, the
\* only step run takes is to return 1: the loop is not entered, nothing is
\* read and nothing is published.
C7_NoReadersNoLoop ==
    [][(pc = "check_readers" /\ readers = << >> /\ pc' # pc) =>
          /\ pc' = "returned"
          /\ status' = << 1 >>
          /\ ~entered'
          /\ data' = << >>
          /\ output' = output]_vars

\* C7 witness: the context was acquired, no reader was set up, run returned 1
C7_Witness ==
    /\ pc = "returned"
    /\ acquired
    /\ ~entered
    /\ status = << 1 >>
    /\ data = << >>

\* C8 (Spec): when run has returned, its status is 0 if the main loop was
\* entered and 1 otherwise (configuration or context failure, no reader),
\* and a loop that was entered has been left with the run flag cleared by
\* signal_handler.
C8_ExitStatus ==
    pc = "returned" =>
        /\ status \in { << 0 >>, << 1 >> }
        /\ status = << 0 >> <=> entered
        /\ entered => (~running /\ stopRequested /\ ~escaping)
        /\ (handlers /\ ~acquired) => status = << 1 >>
        /\ (acquired /\ ~entered) => status = << 1 >>

\* C8 witness: a clean shutdown
C8_Witness ==
    /\ pc = "returned"
    /\ status = << 0 >>
    /\ entered
    /\ stopRequested

\* C9 (SpecReader): after enable_channels(channel_ids) a scan-capable
\* channel of the device is enabled iff channel_ids is None or names it,
\* every other flag is as before, and the same call again, or the call with
\* the list reversed, gives the same flags.
C9_EnableChannels ==
    call.op = "enable_channels" =>
        /\ \A k \in ChannelKeys :
              IF k[1] = call.device /\ k[2] \in ScanIds(call.device)
              THEN enabled[k] <=>
                      (\/ call.channel_ids = None
                       \/ k[2] \in Range(call.channel_ids[1]))
              ELSE enabled[k] = call.before[k]
        /\ enable_channels(call.device, call.channel_ids, enabled) = enabled
        /\ call.channel_ids # None =>
              enable_channels(call.device, Some(Reverse(call.channel_ids[1])),
                              call.before) = enabled

\* C9 witness: a subset selection disabled a channel that was enabled
C9_Witness ==
    /\ call.op = "enable_channels"
    /\ call.device = "iio:device0"
    /\ call.channel_ids = Some(<< "voltage1" >>)
    /\ call.before[<< call.device, "voltage0" >>]
    /\ ~enabled[<< call.device, "voltage0" >>]
    /\ enabled[<< call.device, "voltage1" >>]

\* C10 (SpecReader): the readings of a cycle are readings of the reader's
\* device, each of a channel that is scan-capable and enabled, no two of the
\* same channel, and each such channel whose read succeeds has one.
C10_OnlyEnabledScanChannels ==
    call.op = "read_channels" =>
        /\ \A i \in 1..Len(data) :
              /\ data[i].device = DeviceLabel(call.device)
              /\ data[i].channel \in ParticipatingIds(call.device, enabled)
        /\ \A i, j \in 1..Len(data) : data[i].channel = data[j].channel => i = j
        /\ call.outcome[1].buffer = "ok" =>
              \A c \in ParticipatingIds(call.device, enabled) :
                 call.outcome[1].ch[c].kind = "ok" =>
                    \E i \in 1..Len(data) : data[i].channel = c

\* C10 witness: a cycle in which a disabled scan-capable channel and a
\* channel that is not scan-capable could be read, and only the enabled
\* one gave a reading
C10_Witness ==
    /\ call.op = "read_channels"
    /\ call.device = "iio:device0"
    /\ call.outcome[1].buffer = "ok"
    /\ \A c \in {"voltage0", "voltage1", "timestamp"} :
          call.outcome[1].ch[c].kind = "ok"
    /\ enabled[<< "iio:device0", "voltage0" >>]
    /\ ~enabled[<< "iio:device0", "voltage1" >>]
    /\ Len(data) = 1
    /\ data[1].channel = "voltage0"

\* C11 (SpecReader): every reading of a cycle has value = (raw + offset) *
\* scale for its own raw, scale and offset fields; scale is the channel's
\* scale attribute, or 1 when it has none, and offset the channel's offset
\* attribute, or 0 when it has none; with scale 1 and offset 0 the value is
\* the raw sample.
C11_CalibratedValue ==
    call.op = "read_channels" =>
        \A i \in 1..Len(data) :
           LET r == data[i]
               attrs == ChannelById(call.device, r.channel).attrs
           IN  /\ r.value = (r.raw + r.offset) * r.scale
               /\ r.scale = IF attrs.scale = None THEN 1 ELSE attrs.scale[1]
               /\ r.offset = IF attrs.offset = None THEN 0 ELSE attrs.offset[1]
               /\ (r.scale = 1 /\ r.offset = 0) => r.value = r.raw
               /\ r.raw = call.outcome[1].ch[r.channel].raw

\* C11 witness: one cycle with a calibrated reading, (100 + 1) * 2, and a
\* reading of a channel without attributes, whose value is the raw sample
C11_Witness ==
    /\ call.op = "read_channels"
    /\ Len(data) = 2
    /\ data[1].channel = "voltage0"
    /\ data[1].raw = 100 /\ data[1].scale = 2 /\ data[1].offset = 1
    /\ data[1].value = 202
    /\ data[2].channel = "voltage1"
    /\ data[2].scale = 1 /\ data[2].offset = 0
    /\ data[2].raw = 100 /\ data[2].value = 100

\* C12 (SpecReader): when the read of a channel's scale or offset attribute
\* fails in a cycle whose buffer was acquired, the channel still has a
\* reading in that cycle, with scale 1 (offset 0) in place of the attribute
\* that failed.
C12_AttributeFailureDefaults ==
    (call.op = "read_channels" /\ call.outcome[1].buffer = "ok") =>
        \A c \in ParticipatingIds(call.device, enabled) :
           LET kind == call.outcome[1].ch[c].kind
           IN  kind \in {"scale_error", "offset_error"} =>
                  \E i \in 1..Len(data) :
                     /\ data[i].channel = c
                     /\ kind = "scale_error" => data[i].scale = 1
                     /\ kind = "offset_error" => data[i].offset = 0

\* a record of the except clause of log_data
IsPublishError(r) == r.level = "error" /\ r.text = "Failed to write data"

\* C13 (Spec): a publish that fails is logged by log_data itself, leaves the
\* output, the run flag and the readers as they were, and is followed by the
\* interval sleep, from which the loop goes to its next boundary check; the
\* batch is handed to log_data only by the step that follows the read of the
\* same tick, so it is published at most once and never carried to a later
\* tick.
C13_PublishFailureRecoverable ==
    [][ /\ (pc = "log_data" /\ pc' # "log_data" /\ ~escaping') =>
              /\ pc' = "sleep"
              /\ logged' = << >> \/ (Len(logged') = 1 /\ IsPublishError(logged'[1]))
              /\ logged' # << >> => output' = output
              /\ UNCHANGED << running, readers, data >>
        /\ (pc = "sleep" /\ pc' # "sleep" /\ ~escaping') =>
              /\ pc' \in {"while", "except"}
              /\ pc' = "while" => data' = << >>
        /\ (pc = "except" /\ pc' # "except" /\ ~escaping') =>
              /\ pc' = "while" /\ data' = << >>
        /\ pc' = "log_data" =>
              \/ pc = "read_sensors"
              \/ pc = "log_data" /\ data' = data
      ]_vars

\* C13 witness: a non-empty batch whose publish failed, with the loop at its
\* interval sleep and still running
C13_Witness ==
    /\ pc = "sleep"
    /\ running
    /\ data # << >>
    /\ \E i \in 1..Len(logged) : IsPublishError(logged[i])

\* C14 (Spec): a publish whose output file opens for append adds one record
\* for each reading of the batch, in batch order, after the records already
\* in the file.
C14_AppendsOneRecordPerReading ==
    [][ ( /\ pc = "log_data"
          /\ pc' = "sleep"
          /\ \A i \in 1..Len(logged') : logged'[i].subject # "OSError" ) =>
        output' = output \o JsonLines(data)
      ]_vars

\* the first position of x in list
FirstIndex(list, x) ==
    CHOOSE i \in 1..Len(list) : list[i] = x /\ \A j \in 1..(i - 1) : list[j] # x

\* the device a reading's device field stands for
DeviceOfLabel(label) == CHOOSE d \in DeviceIds : DeviceLabel(d) = label

\* the position of channel id in the enumeration of device d
ChannelIndex(d, id) ==
    CHOOSE i \in 1..Len(ChannelsOf(d)) : ChannelsOf(d)[i].id = id

\* C15 (Spec): while the loop runs, the readers are in the order in which
\* the configuration first names their devices, and of any two readings of
\* the batch the earlier one belongs to an earlier reader, or to the same
\* reader and an earlier channel of the device's enumeration: the batch is
\* the concatenation of the readers' sequences, never interleaved, and a
\* channel that is skipped leaves the order of the others as it is.
C15_BatchOrder ==
    pc \in LoopPcs =>
        /\ \A i, j \in 1..Len(readers) :
              i < j => FirstIndex(config.devices, readers[i])
                         < FirstIndex(config.devices, readers[j])
        /\ \A i, j \in 1..Len(data) :
              i < j =>
                LET di == DeviceOfLabel(data[i].device)
                    dj == DeviceOfLabel(data[j].device)
                IN  /\ di \in Range(readers) /\ dj \in Range(readers)
                    /\ \/ FirstIndex(readers, di) < FirstIndex(readers, dj)
                       \/ /\ di = dj
                          /\ ChannelIndex(di, data[i].channel)
                               < ChannelIndex(dj, data[j].channel)

\* C15 witness: iio:device1 configured before iio:device0, and a batch of
\* the reading of the first followed by both readings of the second
C15_Witness ==
    /\ pc = "log_data"
    /\ config.devices = << "iio:device1", "iio:device0" >>
    /\ readers = << "iio:device1", "iio:device0" >>
    /\ Len(data) = 3
    /\ data[1].device = "iio:device1" /\ data[1].channel = "voltage0"
    /\ data[2].device = "adc" /\ data[2].channel = "voltage0"
    /\ data[3].device = "adc" /\ data[3].channel = "voltage1"

\* C16 (SpecReader): no exception leaves read_channels, whatever the buffer,
\* the channel reads and the attribute reads do; it returns a sequence of at
\* most one reading for each participating channel, the empty sequence when
\* the buffer fails, and the empty sequence for a device without
\* scan-capable channels.
C16_ReadChannelsNeverRaises ==
    call.op = "read_channels" =>
        /\ ~call.raised
        /\ Len(data) <= Cardinality(ParticipatingIds(call.device, enabled))
        /\ call.outcome[1].buffer = "error" => data = << >>
        /\ ScanIds(call.device) = { } => data = << >>
        /\ (\A c \in ParticipatingIds(call.device, enabled) :
               call.outcome[1].ch[c].kind # "ok") => data = << >>

\* C16 witness: the buffer of the device without scan-capable channels
\* fails, and read_channels logs it and returns the empty sequence
C16_Witness ==
    /\ call.op = "read_channels"
    /\ call.device = "iio:device2"
    /\ ScanIds(call.device) = { }
    /\ call.outcome[1].buffer = "error"
    /\ \E i \in 1..Len(logged) : IsDeviceError(logged[i])
    /\ data = << >>
    /\ ~call.raised

\* C17 (Spec): the read of a tick is followed by log_data when its batch is
\* non-empty and by the interval sleep, without log_data, when it is empty;
\* log_data is entered only from the read of the same tick, with that
\* tick's batch, which it leaves as it is, and it is left once, towards the
\* sleep; the next read starts only from a boundary check of the loop, and
\* the output changes only in log_data.
C17_OnePublishPerTick ==
    [][ /\ (pc = "read_sensors" /\ pc' # "read_sensors" /\ ~escaping') =>
              /\ data' # << >> => pc' = "log_data"
              /\ data' = << >> => pc' = "sleep"
              /\ \A i \in 1..Len(data') :
                    DeviceOfLabel(data'[i].device) \in Range(readers)
        /\ (pc' = "log_data" /\ pc # "log_data") =>
              pc = "read_sensors" /\ data' # << >>
        /\ (pc = "log_data" /\ pc' # "log_data") =>
              /\ data' = data
              /\ pc' = "sleep" \/ (escaping' /\ pc' = "finally")
        /\ (pc' = "read_sensors" /\ pc # "read_sensors") => pc = "while"
        /\ (pc' = "while" /\ pc # "while") =>
              pc \in {"check_readers", "sleep", "except"}
        /\ output' # output => pc = "log_data"
      ]_vars

\* C17 witness: a tick whose read returned the empty batch because the
\* buffer of its reader failed, now at the interval sleep without a publish
C17_Witness ==
    /\ pc = "sleep"
    /\ running
    /\ readers # << >>
    /\ data = << >>
    /\ \E i \in 1..Len(logged) : IsDeviceError(logged[i])
    /\ \A i \in 1..Len(logged) : ~IsPublishError(logged[i])

\* a record of the except clause of the main loop
IsLoopError(r) == r.level = "error" /\ r.text = "Error in main loop"

\* C18 as stated (Spec): a step of the loop body in which an error occurs
\* (a read or publish that logs an error, or the interval sleep raising)
\* goes to the except clause of the loop and its backoff, and the loop is
\* left only from a boundary check that finds the run flag cleared.
C18_EveryErrorBacksOff ==
    [][ /\ ( /\ pc \in {"read_sensors", "log_data", "sleep"}
             /\ pc' # pc
             /\ ~escaping'
             /\ \/ pc \in {"read_sensors", "log_data"} /\ Errors(logged') # << >>
                \/ pc = "sleep" /\ config.interval_seconds < 0 ) =>
           pc' = "except"
        /\ (pc' = "finally" /\ pc # "finally" /\ ~escaping') =>
              pc = "while" /\ ~running
      ]_vars

\* C18 amended (Spec): only an exception that reaches the except clause of
\* the loop, which in the code is one raised by the interval sleep, is logged
\* as "Error in main loop" and followed by the backoff and the next boundary
\* check, with run flag and readers as they were; a read or publish error is
\* logged where it occurs and followed by the normal flow of the tick; the
\* loop is left only from a boundary check that finds the run flag cleared,
\* or by an exception the except clause does not handle.
C18_UncaughtErrorBacksOff ==
    [][ /\ (pc = "except" /\ pc' # "except" /\ ~escaping') =>
              /\ pc' = "while"
              /\ Len(logged') = 1 /\ IsLoopError(logged'[1])
              /\ UNCHANGED << running, readers, enabled >>
        /\ (pc' = "except" /\ pc # "except") =>
              pc = "sleep" /\ config.interval_seconds < 0
        /\ (pc = "sleep" /\ pc' # "sleep" /\ ~escaping') =>
              pc' = IF config.interval_seconds < 0 THEN "except" ELSE "while"
        /\ (pc \in {"read_sensors", "log_data"} /\ pc' # pc /\ ~escaping') =>
              /\ pc' \in {"log_data", "sleep"}
              /\ \A i \in 1..Len(logged') : ~IsLoopError(logged'[i])
        /\ (pc' = "finally" /\ pc # "finally") =>
              \/ pc = "while" /\ ~running
              \/ escaping' /\ pc \in {"read_sensors", "log_data", "sleep", "except"}
      ]_vars

\* C18 witness: the interval sleep raised, the except clause logged it and
\* backed off, and the loop is at its boundary check with the flag still set
C18_Witness ==
    /\ pc = "while"
    /\ running
    /\ config.interval_seconds < 0
    /\ Len(logged) = 1 /\ IsLoopError(logged[1])

\* device d is configured, has a scan-capable channel, and the configured
\* selection neither holds "all" nor names one of its scan-capable channels
SelectsNothingOf(d) ==
    /\ d \in Range(config.devices)
    /\ ScanIds(d) # { }
    /\ "all" \notin Range(config.channels)
    /\ Range(config.channels) \cap ScanIds(d) = { }

\* C19 (Spec): a configured device with a scan-capable channel of which the
\* selection (possibly empty, without "all") names none is a reader from
\* the end of initialize_readers until cleanup, with every scan-capable
\* channel disabled; run then does not take the no-readers exit but enters
\* the loop, and no batch holds a reading of that device.
C19_EmptySelectionStillActive ==
    \A d \in DeviceIds :
       SelectsNothingOf(d) =>
          /\ pc \in {"check_readers"} \cup LoopPcs =>
                /\ d \in Range(readers)
                /\ \A c \in ScanIds(d) : ~enabled[<< d, c >>]
                /\ \A i \in 1..Len(data) : DeviceOfLabel(data[i].device) # d
          /\ pc \in LoopPcs => entered
          /\ (pc = "returned" /\ acquired) => (entered /\ status = << 0 >>)

\* C19 witness: iio:device0 configured with the empty selection; the loop
\* was entered with it as the only reader and its tick read nothing
C19_Witness ==
    /\ pc = "sleep"
    /\ entered
    /\ config.devices = << "iio:device0" >>
    /\ config.channels = << >>
    /\ SelectsNothingOf("iio:device0")
    /\ readers = << "iio:device0" >>
    /\ data = << >>
    /\ logged = << >>

\* C20 (Spec): from the end of initialize_readers on, no step of run and no
\* signal changes an enabled flag, and the readers change only in the step
\* that calls cleanup: the read, the publish, the sleeps and the except
\* clause, succeeding or failing, leave both as they are.
C20_ReadersAndFlagsConstant ==
    [][ /\ pc \in {"check_readers", "finally"} \cup LoopPcs => enabled' = enabled
        /\ (pc \in {"check_readers"} \cup LoopPcs /\ cleanups' = cleanups) =>
              readers' = readers
        /\ cleanups' # cleanups => pc \in {"check_readers", "finally"}
      ]_vars

\* C20 witness: after a tick whose publish failed, both readers and their
\* enabled flags are what initialize_readers left
C20_Witness ==
    /\ pc = "sleep"
    /\ cleanups = 0
    /\ readers = << "iio:device0", "iio:device1" >>
    /\ enabled[<< "iio:device0", "voltage0" >>]
    /\ enabled[<< "iio:device1", "voltage0" >>]
    /\ data # << >>
    /\ \E i \in 1..Len(logged) : IsPublishError(logged[i])
    /\ config.channels = << "voltage0" >>

====
